---- MODULE Spec2Model ----
(***************************************************************************)
(* Model of the screenshot sorter (shixian.py): the bucket mapper, the     *)
(* collision-safe relocator, the existing-file sweep and the watch loop.   *)
(*                                                                         *)
(* Dates are proleptic Gregorian ordinals (datetime.date.toordinal()),     *)
(* paths are sequences of path components, file names are strings.         *)
(***************************************************************************)
EXTENDS Integers, Sequences, FiniteSets, TLC

VARIABLES
    args,       \* the parsed command line (argparse namespace), fixed at startup
    xdev,       \* TRUE iff dst_dir is on another file system than watch_dir
    files,      \* the regular files on disk: records [path, id, ts, part]
    dirs,       \* the directories on disk (paths)
    pcMain,     \* position of the main thread in main()
    walk,       \* the os.walk generator of process_existing
    att,        \* per thread: the sort_file call in progress
    obs,        \* the observer's dispatch thread
    queue,      \* creation events delivered by the emitter, not yet dispatched
    moved,      \* the "Moved ..." records printed so far, newest last
    created,    \* number of files created so far by the outside world
    run,        \* 1 in the first run of the program, 2 once it was started again
    bm,         \* bucket-mapper harness: one call of get_date_range_folder
    EXIF_AVAILABLE, \* TRUE iff the import of PIL succeeded
    pt          \* timestamp-resolver harness: one call of pick_timestamp

vars == <<args, xdev, files, dirs, pcMain, walk, att, obs, queue, moved, created, run, bm,
          EXIF_AVAILABLE, pt>>

-----------------------------------------------------------------------------
(* Calendar: datetime.date, timedelta and strftime('%Y.%m.%d')               *)

IsLeap(y) == (y % 4 = 0) /\ ((y % 100 # 0) \/ (y % 400 = 0))

DaysInMonth(y, m) ==
    IF m = 2 THEN (IF IsLeap(y) THEN 29 ELSE 28)
    ELSE IF m \in {4, 6, 9, 11} THEN 30 ELSE 31

\* days before January 1st of year y
DaysBeforeYear(y) ==
    LET p == y - 1 IN p * 365 + (p \div 4) - (p \div 100) + (p \div 400)

RECURSIVE DaysBeforeMonth(_, _)
DaysBeforeMonth(y, m) ==
    IF m = 1 THEN 0 ELSE DaysBeforeMonth(y, m - 1) + DaysInMonth(y, m - 1)

\* date(y, m, d).toordinal()
ToOrdinal(y, m, d) == DaysBeforeYear(y) + DaysBeforeMonth(y, m) + d

RECURSIVE YearOf(_, _)
YearOf(n, y) == IF n > DaysBeforeYear(y + 1) THEN YearOf(n, y + 1) ELSE y

RECURSIVE MonthOf(_, _, _)
MonthOf(rest, y, m) ==
    IF rest > DaysInMonth(y, m) THEN MonthOf(rest - DaysInMonth(y, m), y, m + 1)
    ELSE <<m, rest>>

\* date.fromordinal(n) as <<year, month, day>>
FromOrdinal(n) ==
    LET y  == YearOf(n, (n \div 366) + 1)
        md == MonthOf(n - DaysBeforeYear(y), y, 1)
    IN <<y, md[1], md[2]>>

Pad2(n) == IF n < 10 THEN "0" \o ToString(n) ELSE ToString(n)

Pad4(n) ==
    IF n < 10 THEN "000" \o ToString(n)
    ELSE IF n < 100 THEN "00" \o ToString(n)
    ELSE IF n < 1000 THEN "0" \o ToString(n)
    ELSE ToString(n)

\* d.strftime('%Y.%m.%d') of the date with ordinal n
Strftime(n) ==
    LET ymd == FromOrdinal(n)
    IN Pad4(ymd[1]) \o "." \o Pad2(ymd[2]) \o "." \o Pad2(ymd[3])

\* the date rounded to the nearest midnight instead of cut off
DateOfRounded(dt) == IF dt.tod >= 43200 THEN dt.day + 1 ELSE dt.day

\* dt.date(): a datetime is [day |-> ordinal, tod |-> second of the day]
DateOf(dt) == dt.day

\* datetime.strptime(s, '%Y-%m-%d'): midnight of that day
Midnight(n) == [day |-> n, tod |-> 0]

-----------------------------------------------------------------------------
(* Bucket mapper                                                           *)

DAYS_PER_FOLDER == 10
ORIGIN_DATE == Midnight(ToOrdinal(2025, 5, 1))

\* Python's a // b for b > 0 rounds toward minus infinity
TruncDiv(a, b) == IF a >= 0 THEN a \div b ELSE -((-a) \div b)
FloorDiv(a, b) == a \div b

BucketEndExclusive(start, days) == start + days
BucketStart(origin, idx, days) == DateOf(origin) + idx * days
BucketEnd(start, days) == start + (days - 1)

get_date_range_folder(dt, origin, days) ==
    LET delta == DateOf(dt) - DateOf(origin)
        idx   == FloorDiv(delta, days)
        start == BucketStart(origin, idx, days)
        end   == BucketEnd(start, days)
    IN Strftime(start) \o "-" \o Strftime(end)

-----------------------------------------------------------------------------
(* Strings and paths: str.lower, str.endswith, os.path.*                   *)

UpperCase == "ABCDEFGHIJKLMNOPQRSTUVWXYZ"
LowerCase == "abcdefghijklmnopqrstuvwxyz"

CharAt(s, i) == SubSeq(s, i, i)

LowerChar(c) ==
    IF \E i \in 1..Len(UpperCase) : CharAt(UpperCase, i) = c
    THEN CharAt(LowerCase, CHOOSE i \in 1..Len(UpperCase) : CharAt(UpperCase, i) = c)
    ELSE c

RECURSIVE Lower(_)
Lower(s) == IF Len(s) = 0 THEN "" ELSE LowerChar(CharAt(s, 1)) \o Lower(SubSeq(s, 2, Len(s)))

EndsWith(s, suffix) ==
    /\ Len(s) >= Len(suffix)
    /\ SubSeq(s, Len(s) - Len(suffix) + 1, Len(s)) = suffix

\* os.path.splitext on a file name: the extension starts at the last dot,
\* unless only dots precede it
SplitExt(name) ==
    LET dots == {i \in 1..Len(name) : CharAt(name, i) = "."}
        last == CHOOSE i \in dots : \A j \in dots : j <= i
    IN IF dots # {} /\ (\E k \in 1..(last - 1) : CharAt(name, k) # ".")
       THEN <<SubSeq(name, 1, last - 1), SubSeq(name, last, Len(name))>>
       ELSE <<name, "">>

\* the components of a path string, empty ones (a trailing separator) dropped
RECURSIVE NormPath(_)
NormPath(p) ==
    IF p = <<>> THEN <<>>
    ELSE IF Head(p) = "" THEN NormPath(Tail(p))
    ELSE <<Head(p)>> \o NormPath(Tail(p))

\* os.path.join(dir, name): a trailing separator of dir is not doubled
PathJoin(dir, name) ==
    IF dir # <<>> /\ dir[Len(dir)] = "" THEN SubSeq(dir, 1, Len(dir) - 1) \o <<name>>
    ELSE dir \o <<name>>

IsPrefix(p, q) == Len(p) <= Len(q) /\ SubSeq(q, 1, Len(p)) = p

\* os.path.commonpath([p, q]): the longest common prefix of the normalised paths
CommonPath(p, q) ==
    LET a == NormPath(p)
        b == NormPath(q)
        n == CHOOSE k \in 0..Len(a) :
                 /\ k <= Len(b)
                 /\ SubSeq(a, 1, k) = SubSeq(b, 1, k)
                 /\ \A j \in (k + 1)..Len(a) : j > Len(b) \/ SubSeq(a, 1, j) # SubSeq(b, 1, j)
    IN SubSeq(a, 1, n)

DirName(path) == SubSeq(path, 1, Len(path) - 1)
BaseName(path) == path[Len(path)]

\* os.path.exists: files (also half-written ones) and directories
Exists(path) == (\E f \in files : f.path = NormPath(path)) \/ (NormPath(path) \in dirs)

FileAt(path) == CHOOSE f \in files : f.path = NormPath(path)

-----------------------------------------------------------------------------
(* Timestamp resolver                                                      *)

NoTag == [day |-> 0, tod |-> 0]

\* an image file without EXIF data: Image.open succeeds, _getexif() is None
NoExif == [opens |-> TRUE, tags |-> <<>>]

IsDigit(c) == \E d \in 0..9 : ToString(d) = c

AllDigits(s) == \A i \in 1..Len(s) : IsDigit(CharAt(s, i))

RECURSIVE ParseInt(_)
ParseInt(s) ==
    IF s = "" THEN 0
    ELSE 10 * ParseInt(SubSeq(s, 1, Len(s) - 1))
           + (CHOOSE d \in 0..9 : ToString(d) = CharAt(s, Len(s)))

\* datetime.strptime(val, '%Y:%m:%d %H:%M:%S') of a zero-padded string:
\* [ok |-> FALSE] stands for the ValueError of a string that does not match
\* the format or names no date
Strptime(val) ==
    IF /\ Len(val) = 19
       /\ CharAt(val, 5) = ":" /\ CharAt(val, 8) = ":" /\ CharAt(val, 11) = " "
       /\ CharAt(val, 14) = ":" /\ CharAt(val, 17) = ":"
       /\ AllDigits(SubSeq(val, 1, 4) \o SubSeq(val, 6, 7) \o SubSeq(val, 9, 10)
                      \o SubSeq(val, 12, 13) \o SubSeq(val, 15, 16) \o SubSeq(val, 18, 19))
    THEN LET y  == ParseInt(SubSeq(val, 1, 4))
             m  == ParseInt(SubSeq(val, 6, 7))
             d  == ParseInt(SubSeq(val, 9, 10))
             hh == ParseInt(SubSeq(val, 12, 13))
             mm == ParseInt(SubSeq(val, 15, 16))
             ss == ParseInt(SubSeq(val, 18, 19))
         IN IF /\ y >= 1 /\ m \in 1..12 /\ d >= 1 /\ hh < 24 /\ mm < 60 /\ ss < 60
               /\ d <= DaysInMonth(y, m)
            THEN [ok |-> TRUE,
                  dt |-> [day |-> ToOrdinal(y, m, d), tod |-> hh * 3600 + mm * 60 + ss]]
            ELSE [ok |-> FALSE, dt |-> NoTag]
    ELSE [ok |-> FALSE, dt |-> NoTag]

DateTags == {"DateTime", "DateTimeOriginal", "DateTimeDigitized"}

\* the try block of get_exif_datetime: [exc |-> TRUE] if an exception leaves
\* it, else the value returned from inside the loop, or NoTag if the loop ends
ReadExif(f) ==
    IF ~f.exif.opens THEN [exc |-> TRUE, dt |-> NoTag]
    ELSE LET tags == f.exif.tags
             hits == {i \in 1..Len(tags) : tags[i].name \in DateTags}
         IN IF hits = {} THEN [exc |-> FALSE, dt |-> NoTag]
            ELSE LET first == CHOOSE i \in hits : \A j \in hits : i <= j
                     r     == Strptime(tags[first].val)
                 IN [exc |-> ~r.ok, dt |-> r.dt]

\* get_exif_datetime: the tag if one can be read, else None (here NoTag)
get_exif_datetime(f) ==
    IF ~EXIF_AVAILABLE THEN NoTag
    ELSE IF ReadExif(f).exc THEN NoTag
    ELSE ReadExif(f).dt

\* a resolver that falls back to the source's default, the creation time
pick_timestamp_default(f, source) ==
    IF source = "exif" /\ get_exif_datetime(f) # NoTag THEN get_exif_datetime(f)
    ELSE IF source = "mtime" THEN f.mtime ELSE f.ctime

pick_timestamp(f, source) ==
    IF source = "exif" /\ get_exif_datetime(f) # NoTag THEN get_exif_datetime(f)
    ELSE IF source # "ctime" THEN f.mtime ELSE f.ctime

-----------------------------------------------------------------------------
(* File relocator                                                          *)

RECURSIVE UniqueFrom(_, _, _, _)
UniqueFrom(base, ext, new_dst, i) ==
    IF Exists(new_dst)
    THEN UniqueFrom(base, ext, PathJoin(DirName(new_dst), base \o "_" \o ToString(i) \o ext), i + 1)
    ELSE new_dst

ensure_unique_overwrite(dst) == dst
ensure_unique(dst) ==
    LET be == SplitExt(BaseName(dst))
    IN UniqueFrom(be[1], be[2], dst, 1)

-----------------------------------------------------------------------------
(* Bounds and the inputs the outside world draws from                      *)

MaxFiles == 3       \* files the outside world creates in one behaviour

WatchDir == <<"w">>

SubDir == WatchDir \o <<"sub">>

\* where the outside world writes files: a screenshot in the watched directory
\* or in a subdirectory of it, a file that is no image, and a file of another
\* type whose extension ends like that of an image
Slots == { <<WatchDir, "s.png">>, <<SubDir, "s.png">>, <<WatchDir, "n.txt">>,
           <<WatchDir, "a.apng">> }

\* the instant of the run, and the instants older files can carry
Now == [day |-> ToOrdinal(2025, 5, 13), tod |-> 36000]

Stamps == { Now, [day |-> ToOrdinal(2025, 4, 25), tod |-> 0] }

\* dst_dir as given on the command line: the watch directory itself (the
\* defaults), a subdirectory of it, the same with a trailing separator, and a
\* directory outside the watched tree
DstDirs == { WatchDir, WatchDir \o <<"sorted">>, WatchDir \o <<"sorted", "">>, <<"d">> }

Threads == {"main", "obs"}

Idle == [pc |-> "idle", src |-> <<>>, dst |-> <<>>]

NoWalk == [stack |-> <<>>, root |-> <<>>, files |-> {}]

NoCall == [state |-> "none", dt |-> NoTag, label |-> ""]

\* no pick_timestamp call outside the program is in progress
NoPick == [state |-> "none", out |-> NoTag]

\* all the orders in which a directory listing can return the set S
Orderings(S) ==
    {q \in [1..Cardinality(S) -> S] : \A i, j \in 1..Cardinality(S) : q[i] = q[j] => i = j}

\* all the directories os.makedirs(path) makes sure exist
Ancestors(path) == {SubSeq(path, 1, k) : k \in 1..Len(path)}

IsChildOf(path, dir) == Len(path) = Len(dir) + 1 /\ IsPrefix(dir, path)

\* the emitter thread delivers creation events for direct children of the
\* watched directory (recursive=False) while the watch is scheduled
Emitting == obs \in {"running", "dead"}

Notify(path, isdir) ==
    IF Emitting /\ IsChildOf(path, NormPath(args.watch_dir))
    THEN <<[src_path |-> path, is_directory |-> isdir]>>
    ELSE <<>>

RECURSIVE NotifyAll(_)
NotifyAll(ps) ==
    IF ps = {} THEN <<>>
    ELSE LET p == CHOOSE x \in ps : \A y \in ps : Len(x) <= Len(y)
         IN Notify(p, TRUE) \o NotifyAll(ps \ {p})

\* f.lower().endswith(tuple(exts)) / any(path.lower().endswith(e) for e in exts)
Eligible(name, exts) == \E e \in exts : EndsWith(Lower(name), e)

Label(f) == get_date_range_folder(pick_timestamp(f, args.source), args.origin, args.days)

-----------------------------------------------------------------------------
(* Initial state: the process has parsed its arguments, nothing has run    *)

\* lines 143-156: the argparse namespace, with its defaults
ParseArgs(dst_dir, days, origin, process_existing) ==
    [watch_dir |-> WatchDir, dst_dir |-> dst_dir, days |-> days, origin |-> origin,
     source |-> "ctime", exts |-> {"png", "jpg", "jpeg"},
     process_existing |-> process_existing]

Quiescent ==
    /\ files = {}
    /\ dirs = {WatchDir, SubDir}
    /\ pcMain = "start"
    /\ walk = NoWalk
    /\ att = [t \in Threads |-> Idle]
    /\ obs = "none"
    /\ queue = <<>>
    /\ moved = {}
    /\ created = 0
    /\ run = 1

Init ==
    /\ args \in {ParseArgs(d, DAYS_PER_FOLDER, ORIGIN_DATE, pe) : d \in DstDirs, pe \in BOOLEAN}
    /\ xdev \in BOOLEAN
    /\ xdev => args.dst_dir = <<"d">>
    /\ Quiescent
    /\ bm = NoCall
    /\ EXIF_AVAILABLE = TRUE
    /\ pt = NoPick

-----------------------------------------------------------------------------
(* The outside world                                                       *)

NewFile(path, ts) ==
    [path |-> path, id |-> created + 1, mtime |-> ts, ctime |-> ts, exif |-> NoExif,
     part |-> FALSE]

\* some program writes a new file into the watched tree; a screenshot written
\* before the process started may be older
CreateFile ==
    /\ created < MaxFiles
    /\ pcMain \in {"start", "sweep", "launch", "observe"}
    /\ \E slot \in Slots :
       \E ts \in (IF pcMain = "start" /\ slot[2] = "s.png" THEN Stamps ELSE {Now}) :
         LET path == slot[1] \o <<slot[2]>> IN
         /\ ~Exists(path)
         /\ files' = files \cup {NewFile(path, ts)}
         /\ queue' = queue \o Notify(path, FALSE)
    /\ created' = created + 1
    /\ UNCHANGED <<args, xdev, dirs, pcMain, walk, att, obs, moved, run, bm, EXIF_AVAILABLE, pt>>

\* a file an earlier run has already sorted into its bucket
Archived ==
    /\ created < MaxFiles
    /\ pcMain = "start"
    /\ \E name \in {slot[2] : slot \in Slots \ {<<WatchDir, "a.apng">>}}, ts \in Stamps :
         LET f0     == NewFile(<<>>, ts)
             target == NormPath(args.dst_dir) \o <<Label(f0)>>
             path   == target \o <<name>> IN
         /\ Eligible(name, args.exts)
         /\ ~Exists(path)
         /\ files' = files \cup {[f0 EXCEPT !.path = path]}
         /\ dirs' = dirs \cup Ancestors(target)
    /\ created' = created + 1
    /\ UNCHANGED <<args, xdev, pcMain, walk, att, obs, queue, moved, run, bm, EXIF_AVAILABLE, pt>>

\* a file not yet sorted is deleted or renamed away by its owner while the
\* program is about to handle it
Vanish ==
    /\ \E f \in files :
         /\ \E slot \in Slots : f.path = slot[1] \o <<slot[2]>>
         /\ \E t \in Threads : att[t].pc \in {"sleep", "sort", "move"} /\ att[t].src = f.path
         /\ files' = files \ {f}
    /\ UNCHANGED <<args, xdev, dirs, pcMain, walk, att, obs, queue, moved, created, run, bm, EXIF_AVAILABLE, pt>>

-----------------------------------------------------------------------------
(* sort_file, run by the main thread (sweep) or the dispatch thread        *)

\* an exception leaves sort_file: nothing in this program catches it
Raise(t) ==
    /\ att' = [att EXCEPT ![t] = Idle]
    /\ IF t = "main"
       THEN pcMain' = "crashed" /\ UNCHANGED obs
       ELSE obs' = "dead" /\ UNCHANGED pcMain

Return(t) ==
    /\ att' = [att EXCEPT ![t] = Idle]
    /\ UNCHANGED <<pcMain, obs>>

Moved(t, f, dst) == [by |-> t, run |-> run, id |-> f.id, src |-> f.path, dst |-> dst]

\* a relocator that puts every file into the destination root itself
TargetFlat(dst_root, folder_name) == dst_root

\* line 101: the bucket directory
Target(dst_root, folder_name) == PathJoin(dst_root, folder_name)

\* lines 99-104: stat the file, compute the bucket, make its directory and
\* choose the destination name
Resolve(t) ==
    /\ att[t].pc = "sort"
    /\ IF ~(\E f \in files : f.path = att[t].src)
       THEN /\ Raise(t)
            /\ UNCHANGED <<dirs, queue>>
       ELSE LET f           == FileAt(att[t].src)
                dt          == pick_timestamp(f, args.source)
                folder_name == get_date_range_folder(dt, args.origin, args.days)
                target      == Target(args.dst_dir, folder_name)
                made        == Ancestors(NormPath(target)) \ dirs
                name        == BaseName(att[t].src)
                dst         == ensure_unique(PathJoin(target, name))
            IN /\ dirs' = dirs \cup made
               /\ queue' = queue \o NotifyAll(made)
               /\ att' = [att EXCEPT ![t] = [pc |-> "move", src |-> att[t].src,
                                             dst |-> NormPath(dst)]]
               /\ UNCHANGED <<pcMain, obs>>
    /\ UNCHANGED <<args, xdev, files, walk, moved, created, run, bm, EXIF_AVAILABLE, pt>>

\* line 105, shutil.move: os.rename, which replaces whatever is at dst; across
\* file systems rename fails and the file is copied, then the source unlinked
Move(t) ==
    /\ att[t].pc = "move"
    /\ IF ~(\E f \in files : f.path = att[t].src)
       THEN /\ Raise(t)
            /\ UNCHANGED <<files, queue, moved>>
       ELSE LET f    == FileAt(att[t].src)
                dst  == att[t].dst
                kept == {g \in files : g.path # dst /\ g.path # f.path}
            IN IF xdev
               THEN /\ files' = {g \in files : g.path # dst}
                                   \cup {[f EXCEPT !.path = dst, !.part = TRUE]}
                    /\ att' = [att EXCEPT ![t].pc = "copy"]
                    /\ queue' = queue \o Notify(dst, FALSE)
                    /\ UNCHANGED <<pcMain, obs, moved>>
               ELSE /\ files' = kept \cup {[f EXCEPT !.path = dst]}
                    /\ queue' = queue \o Notify(dst, FALSE)
                    /\ moved' = moved \cup {Moved(t, f, dst)}
                    /\ Return(t)
    /\ UNCHANGED <<args, xdev, dirs, walk, created, run, bm, EXIF_AVAILABLE, pt>>

\* shutil.copy2 has written the whole file
CopyDone(t) ==
    /\ att[t].pc = "copy"
    /\ files' = {IF g.path = att[t].dst THEN [g EXCEPT !.part = FALSE] ELSE g : g \in files}
    /\ att' = [att EXCEPT ![t].pc = "unlink"]
    /\ UNCHANGED <<args, xdev, dirs, pcMain, walk, obs, queue, moved, created, run, bm, EXIF_AVAILABLE, pt>>

\* shutil.copy2 fails part-way (disk full, I/O error): OSError
CopyFail(t) ==
    /\ att[t].pc = "copy"
    /\ Raise(t)
    /\ UNCHANGED <<args, xdev, files, dirs, walk, queue, moved, created, run, bm, EXIF_AVAILABLE, pt>>

\* os.unlink(src) after the copy
Unlink(t) ==
    /\ att[t].pc = "unlink"
    /\ IF ~(\E f \in files : f.path = att[t].src)
       THEN /\ Raise(t)
            /\ UNCHANGED <<files, moved>>
       ELSE LET f == FileAt(att[t].src)
            IN /\ files' = files \ {f}
               /\ moved' = moved \cup {Moved(t, f, att[t].dst)}
               /\ Return(t)
    /\ UNCHANGED <<args, xdev, dirs, walk, queue, created, run, bm, EXIF_AVAILABLE, pt>>

-----------------------------------------------------------------------------
(* main() and process_existing on the main thread                          *)

\* the observer started before the sweep instead of after it
StartupObserverFirst ==
    /\ pcMain = "start"
    /\ dirs' = dirs \cup Ancestors(NormPath(args.dst_dir))
    /\ IF args.process_existing
       THEN /\ pcMain' = "sweep"
            /\ obs' = "running"
            /\ walk' = [stack |-> <<args.watch_dir>>, root |-> <<>>, files |-> {}]
       ELSE /\ pcMain' = "launch"
            /\ UNCHANGED <<walk, obs>>
    /\ UNCHANGED <<args, xdev, files, att, queue, moved, created, run, bm, EXIF_AVAILABLE, pt>>

\* lines 154-162: make dst_dir, then sweep if asked to
Startup ==
    /\ pcMain = "start"
    /\ dirs' = dirs \cup Ancestors(NormPath(args.dst_dir))
    /\ IF args.process_existing
       THEN /\ pcMain' = "sweep"
            /\ walk' = [stack |-> <<args.watch_dir>>, root |-> <<>>, files |-> {}]
       ELSE /\ pcMain' = "launch"
            /\ UNCHANGED walk
    /\ UNCHANGED <<args, xdev, files, att, obs, queue, moved, created, run, bm, EXIF_AVAILABLE, pt>>

\* line 114: os.walk lists the next directory, top down
WalkDir ==
    /\ pcMain = "sweep"
    /\ att["main"].pc = "idle"
    /\ walk.files = {}
    /\ walk.stack # <<>>
    /\ LET top  == Head(walk.stack)
           subs == {d \in dirs : IsChildOf(d, top)}
       IN \E order \in Orderings(subs) :
            walk' = [stack |-> order \o Tail(walk.stack),
                     root  |-> top,
                     files |-> {BaseName(f.path) : f \in {g \in files : DirName(g.path) = top}}]
    /\ UNCHANGED <<args, xdev, files, dirs, pcMain, att, obs, queue, moved, created, run, bm, EXIF_AVAILABLE, pt>>

\* a test that skips only what lies in a directory below the destination root
UnderDstSubdir(fp, dst_root) == CommonPath(fp, dst_root) = dst_root /\ Len(fp) > Len(dst_root) + 1

\* the test of line 119
UnderDst(fp, dst_root) == CommonPath(fp, dst_root) = dst_root

\* lines 115-121: one file of the listing
SweepFile ==
    /\ pcMain = "sweep"
    /\ att["main"].pc = "idle"
    /\ \E f \in walk.files :
         /\ walk' = [walk EXCEPT !.files = @ \ {f}]
         /\ LET fp == PathJoin(walk.root, f)
            IN IF Eligible(f, args.exts) /\ ~UnderDst(fp, args.dst_dir)
               THEN att' = [att EXCEPT !["main"] = [pc |-> "sort", src |-> fp, dst |-> <<>>]]
               ELSE UNCHANGED att
    /\ UNCHANGED <<args, xdev, files, dirs, pcMain, obs, queue, moved, created, run, bm, EXIF_AVAILABLE, pt>>

\* line 122: the walk is exhausted
SweepDone ==
    /\ pcMain = "sweep"
    /\ att["main"].pc = "idle"
    /\ walk.files = {}
    /\ walk.stack = <<>>
    /\ pcMain' = "launch"
    /\ walk' = NoWalk
    /\ UNCHANGED <<args, xdev, files, dirs, att, obs, queue, moved, created, run, bm, EXIF_AVAILABLE, pt>>

\* the sweep handed to the background while the observer starts
LaunchDuringSweep ==
    /\ pcMain \in {"sweep", "launch"}
    /\ pcMain = "sweep" => obs = "none"
    /\ obs' = "running"
    /\ pcMain' = IF pcMain = "launch" THEN "observe" ELSE pcMain
    /\ UNCHANGED <<args, xdev, files, dirs, walk, att, queue, moved, created, run, bm, EXIF_AVAILABLE, pt>>

\* lines 164-167: schedule the handler and start the observer
Launch ==
    /\ pcMain = "launch"
    /\ obs' = "running"
    /\ pcMain' = "observe"
    /\ UNCHANGED <<args, xdev, files, dirs, walk, att, queue, moved, created, run, bm, EXIF_AVAILABLE, pt>>

\* lines 172-173: KeyboardInterrupt in the sleep loop, observer.stop()
Interrupt ==
    /\ pcMain = "observe"
    /\ pcMain' = "join"
    /\ obs' = IF obs = "running" THEN "stopping" ELSE obs
    /\ UNCHANGED <<args, xdev, files, dirs, walk, att, queue, moved, created, run, bm, EXIF_AVAILABLE, pt>>

\* line 174: observer.join() returns once the dispatch thread has ended
Join ==
    /\ pcMain = "join"
    /\ obs \in {"stopped", "dead"}
    /\ pcMain' = "exit"
    /\ UNCHANGED <<args, xdev, files, dirs, walk, att, obs, queue, moved, created, run, bm, EXIF_AVAILABLE, pt>>

\* the process has ended and the user starts it again with the same arguments
Restart ==
    /\ pcMain = "exit"
    /\ run = 1
    /\ run' = 2
    /\ pcMain' = "start"
    /\ obs' = "none"
    /\ queue' = <<>>
    /\ UNCHANGED <<args, xdev, files, dirs, walk, att, moved, created, bm, EXIF_AVAILABLE, pt>>

-----------------------------------------------------------------------------
(* The observer's dispatch thread and ScreenshotHandler.on_created         *)

\* a dispatch thread that takes events until the queue is empty
DispatchWhileStopping ==
    /\ obs \in {"running", "stopping"}
    /\ att["obs"].pc = "idle"
    /\ queue # <<>>
    /\ queue' = Tail(queue)
    /\ LET event == Head(queue)
       IN IF ~event.is_directory /\ Eligible(BaseName(event.src_path), args.exts)
          THEN att' = [att EXCEPT !["obs"] = [pc |-> "sleep", src |-> event.src_path,
                                              dst |-> <<>>]]
          ELSE UNCHANGED att
    /\ UNCHANGED <<args, xdev, files, dirs, pcMain, walk, obs, moved, created, run, bm, EXIF_AVAILABLE, pt>>

\* lines 133-137: take the next event, filter it
Dispatch ==
    /\ obs = "running"
    /\ att["obs"].pc = "idle"
    /\ queue # <<>>
    /\ queue' = Tail(queue)
    /\ LET event == Head(queue)
       IN IF ~event.is_directory /\ Eligible(BaseName(event.src_path), args.exts)
          THEN att' = [att EXCEPT !["obs"] = [pc |-> "sleep", src |-> event.src_path,
                                              dst |-> <<>>]]
          ELSE UNCHANGED att
    /\ UNCHANGED <<args, xdev, files, dirs, pcMain, walk, obs, moved, created, run, bm, EXIF_AVAILABLE, pt>>

\* line 138: the settle delay has passed; line 139 calls sort_file
Settle ==
    /\ att["obs"].pc = "sleep"
    /\ att' = [att EXCEPT !["obs"].pc = "sort"]
    /\ UNCHANGED <<args, xdev, files, dirs, pcMain, walk, obs, queue, moved, created, run, bm, EXIF_AVAILABLE, pt>>

\* the dispatch thread sees the stop request between two events
ObsExit ==
    /\ obs = "stopping"
    /\ att["obs"].pc = "idle"
    /\ obs' = "stopped"
    /\ UNCHANGED <<args, xdev, files, dirs, pcMain, walk, att, queue, moved, created, run, bm, EXIF_AVAILABLE, pt>>

-----------------------------------------------------------------------------

Next ==
    \/ CreateFile
    \/ Archived
    \/ Vanish
    \/ Startup
    \/ WalkDir
    \/ SweepFile
    \/ SweepDone
    \/ Launch
    \/ Interrupt
    \/ Join
    \/ Dispatch
    \/ Settle
    \/ ObsExit
    \/ \E t \in Threads : Resolve(t)
    \/ \E t \in Threads : Move(t)
    \/ \E t \in Threads : CopyDone(t)
    \/ \E t \in Threads : CopyFail(t)
    \/ \E t \in Threads : Unlink(t)

Spec == Init /\ [][Next]_vars

\* the program run twice in a row
NextRerun == Next \/ Restart

RerunSpec == Init /\ [][NextRerun]_vars

-----------------------------------------------------------------------------
(* The bucket mapper on its own: get_date_range_folder applied to instants *)
(* around the origin, for every period up to MaxPeriod                     *)

MaxPeriod == 10     \* periods 1..MaxPeriod days
DateSpan == 25      \* instants up to DateSpan days before and after the origin

Origins == {ORIGIN_DATE, Midnight(ToOrdinal(2024, 2, 20))}

TimesOfDay == {0, 86399}

BucketInit ==
    /\ args \in {ParseArgs(WatchDir, p, o, FALSE) : p \in 1..MaxPeriod, o \in Origins}
    /\ xdev = FALSE
    /\ Quiescent
    /\ bm \in { [state |-> "call", dt |-> [day |-> DateOf(args.origin) + k, tod |-> s],
                 label |-> ""] : k \in (0 - DateSpan)..DateSpan, s \in TimesOfDay }
    /\ EXIF_AVAILABLE = TRUE
    /\ pt = NoPick

BucketFor ==
    /\ bm.state = "call"
    /\ bm' = [bm EXCEPT !.state = "done",
                        !.label = get_date_range_folder(bm.dt, args.origin, args.days)]
    /\ UNCHANGED <<args, xdev, files, dirs, pcMain, walk, att, obs, queue, moved, created, run,
                   EXIF_AVAILABLE, pt>>

BucketNext == BucketFor

BucketSpec == BucketInit /\ [][BucketNext]_vars

-----------------------------------------------------------------------------
(* Properties of the bucket mapper (BucketSpec)                            *)

\* the date a '%Y.%m.%d' string denotes, searched around the origin
ParseDate(str) ==
    LET o == DateOf(args.origin)
        r == DateSpan + 3 * args.days + 3
    IN CHOOSE n \in (o - r)..(o + r) : Strftime(n) = str

LabelStart(label) == ParseDate(SubSeq(label, 1, 10))
LabelEnd(label) == ParseDate(SubSeq(label, 12, 21))

\* C9: for every instant date d and period p >= 1 the label returned names the
\* bucket start = origin + floor((d - origin) / p) * p, end = start + p - 1,
\* so start <= d <= end, also for dates before the origin; with origin
\* 2025-05-01 and p = 10, 2025-05-13 gives 2025.05.11-2025.05.20 and
\* 2025-04-25 gives 2025.04.21-2025.04.30.
C9_FloorBucket ==
    bm.state = "done" =>
        LET d == DateOf(bm.dt)
            o == DateOf(args.origin)
            p == args.days
            s == LabelStart(bm.label)
            e == LabelEnd(bm.label)
            q == CHOOSE k \in (0 - DateSpan - 1)..(DateSpan + 1) :
                     k * p <= d - o /\ d - o < (k + 1) * p
        IN /\ Len(bm.label) = 21
           /\ SubSeq(bm.label, 11, 11) = "-"
           /\ s = o + q * p
           /\ e = s + p - 1
           /\ s <= d /\ d <= e
           /\ (args.origin = ORIGIN_DATE /\ p = 10 /\ d = ToOrdinal(2025, 5, 13))
                  => bm.label = "2025.05.11-2025.05.20"
           /\ (args.origin = ORIGIN_DATE /\ p = 10 /\ d = ToOrdinal(2025, 4, 25))
                  => bm.label = "2025.04.21-2025.04.30"

\* a date before the origin that is not on a bucket boundary has been mapped
C9_Witness ==
    /\ bm.state = "done"
    /\ args.origin = ORIGIN_DATE
    /\ args.days = 10
    /\ DateOf(bm.dt) = ToOrdinal(2025, 4, 25)
    /\ bm.label = "2025.04.21-2025.04.30"

\* C10: buckets tile the date axis: the day after a bucket's end is the start
\* of the next bucket, the day before its start is the end of the previous one,
\* and a date carries this bucket's label exactly if it lies between the
\* bucket's start and end; for negative, zero and positive bucket indices.
C10_Tiling ==
    bm.state = "done" =>
        LET p    == args.days
            s    == LabelStart(bm.label)
            e    == LabelEnd(bm.label)
            next == get_date_range_folder(Midnight(e + 1), args.origin, p)
            prev == get_date_range_folder(Midnight(s - 1), args.origin, p)
        IN /\ LabelStart(next) = e + 1
           /\ LabelEnd(prev) = s - 1
           /\ \A x \in (DateOf(bm.dt) - p)..(DateOf(bm.dt) + p) :
                  (s <= x /\ x <= e)
                      <=> (get_date_range_folder(Midnight(x), args.origin, p) = bm.label)

\* the last day of a bucket before the origin has been mapped, with a period
\* of more than one day
C10_Witness ==
    /\ bm.state = "done"
    /\ args.days > 1
    /\ DateOf(bm.dt) < DateOf(args.origin) - args.days
    /\ DateOf(bm.dt) = LabelEnd(bm.label)

-----------------------------------------------------------------------------
(* Properties of the program (Spec)                                        *)

InFlight(t) == att[t].pc \in {"move", "copy", "unlink"}

FilesIn(dir) == {g \in files : DirName(g.path) = dir}

\* the names sort_file tries for a file called name: name itself, then
\* base_1.ext, base_2.ext, ...
Candidate(name, i) ==
    IF i = 0 THEN name
    ELSE SplitExt(name)[1] \o "_" \o ToString(i) \o SplitExt(name)[2]

\* thread t performs the rename (or starts the copy) of its file in this step
Places(t) ==
    /\ att[t].pc = "move"
    /\ att'[t].pc # "move"
    /\ \E f \in files : f.path = att[t].src
    /\ \E g \in files' : g.path = att[t].dst

\* C1: every placement by sort_file lands on a path that was free (nothing is
\* overwritten), the name chosen is the file's own name if that is free in the
\* bucket and else base_i.ext for the smallest i >= 1 that is free, and every
\* other file on disk is left exactly as it was.
C1_DistinctPlacement ==
    [][\A t \in Threads :
          Places(t) =>
              LET src   == att[t].src
                  dst   == att[t].dst
                  taken == {BaseName(g.path) : g \in FilesIn(DirName(dst))}
              IN /\ \A g \in files : g.path # dst
                 /\ \E i \in 0..Cardinality(taken) :
                        /\ BaseName(dst) = Candidate(BaseName(src), i)
                        /\ \A j \in 0..(i - 1) : Candidate(BaseName(src), j) \in taken
                 /\ \A g \in files : g.path # src => g \in files'
      ]_vars

\* three files called s.png have been placed into one bucket: s.png, s_1.png
\* and s_2.png
C1_Witness ==
    \E m1, m2, m3 \in moved :
        /\ BaseName(m1.src) = "s.png" /\ BaseName(m2.src) = "s.png" /\ BaseName(m3.src) = "s.png"
        /\ m1.id # m2.id /\ m2.id # m3.id /\ m1.id # m3.id
        /\ BaseName(m1.dst) = "s.png"
        /\ m2.dst = DirName(m1.dst) \o <<"s_1.png">>
        /\ m3.dst = DirName(m1.dst) \o <<"s_2.png">>
        /\ \A m \in {m1, m2, m3} : \E g \in files : g.path = m.dst /\ g.id = m.id

\* C2: no two classification attempts are at the same time between choosing a
\* destination name and moving the file there, for destinations in the same
\* bucket directory; so no two of them hold the same free candidate name.
C2_SerializedPlacement ==
    \A t1, t2 \in Threads :
        (t1 # t2 /\ InFlight(t1) /\ InFlight(t2))
            => DirName(att[t1].dst) # DirName(att[t2].dst)

\* the sweep and the watch loop have each placed a file called s.png into the
\* same bucket, under different names
C2_Witness ==
    \E m1, m2 \in moved :
        /\ m1.by = "main" /\ m2.by = "obs"
        /\ BaseName(m1.src) = BaseName(m2.src)
        /\ DirName(m1.dst) = DirName(m2.dst)
        /\ m1.dst # m2.dst
        /\ m1.id # m2.id

\* C3: a file that fails to classify during the sweep is skipped: the failure
\* does not leave process_existing, the sweep goes on.
C3_SweepSurvivesFailure == pcMain # "crashed"

\* C4: a failure to classify one notified file does not stop the watch loop:
\* while the main thread waits in its sleep loop, the dispatch thread is alive.
C4_WatchSurvivesFailure == pcMain = "observe" => obs = "running"

\* C5: the sweep never relocates a file that lies under the destination root,
\* however dst_dir is written.
C5_SweepSkipsArchive ==
    \A m \in moved : m.by = "main" => ~IsPrefix(NormPath(args.dst_dir), m.src)

\* C6: a second sweep with the same arguments moves no file that the first
\* sweep has placed.
C6_ResweepIdempotent ==
    \A m1, m2 \in moved :
        (m1.by = "main" /\ m2.by = "main" /\ m1.run = 1 /\ m2.run = 2) => m1.id # m2.id

\* C7: in every state a file is in one place only, whole: never at source and
\* destination at once, never partly written at the destination.
C7_MoveAllOrNothing ==
    /\ \A f, g \in files : f.id = g.id => f = g
    /\ \A f \in files : ~f.part

\* C8: when the sweep is requested, the observer is started only after the
\* sweep has run to its end, the sweep is entered once, from startup only, and
\* a sweep classification and a watch classification are never in progress
\* together.
C8_SweepBeforeWatch ==
    /\ [](/\ (args.process_existing /\ obs # "none")
                 => (pcMain \in {"observe", "join", "exit"} /\ walk = NoWalk)
          /\ pcMain = "sweep" => (obs = "none" /\ queue = <<>>)
          /\ ~(att["main"].pc # "idle" /\ att["obs"].pc # "idle"))
    /\ [][/\ (pcMain' = "sweep" /\ pcMain # "sweep") => (pcMain = "start" /\ args.process_existing)
          /\ (pcMain = "start" /\ args.process_existing) => pcMain' \in {"start", "sweep"}
          /\ (obs = "none" /\ obs' # "none") => pcMain = "launch"
         ]_vars

\* the sweep has placed a file and a watch classification is now under way
C8_Witness ==
    /\ args.process_existing
    /\ obs = "running"
    /\ att["obs"].pc = "move"
    /\ \E m \in moved : m.by = "main"

-----------------------------------------------------------------------------
(* More properties of the bucket mapper (BucketSpec)                       *)

\* the number of the period-length window, counted from the origin, that the
\* day with ordinal d falls in
WindowOf(d) ==
    CHOOSE k \in (0 - DateSpan - args.days - 1)..(DateSpan + args.days + 1) :
        /\ DateOf(args.origin) + k * args.days <= d
        /\ d < DateOf(args.origin) + (k + 1) * args.days

\* C11: for a fixed origin and period, another instant gets the same label as
\* the instant mapped exactly if its date lies in the same period-length
\* window from the origin; the time of day of either instant does not matter.
C11_SameLabelSameWindow ==
    bm.state = "done" =>
        \A k \in (0 - args.days)..args.days, s \in TimesOfDay :
            LET other == [day |-> bm.dt.day + k, tod |-> s]
            IN (get_date_range_folder(other, args.origin, args.days) = bm.label)
                   <=> (WindowOf(other.day) = WindowOf(bm.dt.day))

\* an instant late in the evening of the last day of a window before the
\* origin has been mapped
C11_Witness ==
    /\ bm.state = "done"
    /\ bm.dt.tod = 86399
    /\ args.days > 1
    /\ bm.dt.day < DateOf(args.origin)
    /\ WindowOf(bm.dt.day + 1) # WindowOf(bm.dt.day)

-----------------------------------------------------------------------------
(* The timestamp resolver on its own: one call of pick_timestamp             *)

MaxTags == 2        \* EXIF tags per file

TagNames == {"DateTime", "DateTimeOriginal", "Make"}

TagVals == {"2025:04:25 23:59:59", "2025-04-25 23:59:59", "2025:02:30 10:00:00"}

Tags == [name : TagNames, val : TagVals]

RECURSIVE TagLists(_)
TagLists(n) ==
    IF n = 0 THEN {<<>>}
    ELSE TagLists(n - 1) \cup
         { Append(l, t) : l \in {k \in TagLists(n - 1) : Len(k) = n - 1}, t \in Tags }

\* the EXIF block of a file is a dictionary: no tag occurs twice
ExifData ==
    {[opens |-> FALSE, tags |-> <<>>]} \cup
    { [opens |-> TRUE, tags |-> l] :
        l \in {k \in TagLists(MaxTags) :
                 \A i, j \in 1..Len(k) : k[i].name = k[j].name => i = j} }

Sources == {"mtime", "ctime", "exif"}

TimestampInit ==
    /\ args \in {[ParseArgs(WatchDir, DAYS_PER_FOLDER, ORIGIN_DATE, FALSE)
                     EXCEPT !.source = s] : s \in Sources}
    /\ xdev = FALSE
    /\ Quiescent
    /\ bm = NoCall
    /\ EXIF_AVAILABLE \in BOOLEAN
    /\ pt \in { [state |-> "call", out |-> NoTag,
                 file |-> [path |-> PathJoin(WatchDir, "s.png"), id |-> 1,
                           mtime |-> Now, ctime |-> Midnight(Now.day - 1),
                           exif |-> e, part |-> FALSE]] : e \in ExifData }

PickTimestamp ==
    /\ pt.state = "call"
    /\ pt' = [pt EXCEPT !.state = "done", !.out = pick_timestamp(pt.file, args.source)]
    /\ UNCHANGED <<args, xdev, files, dirs, pcMain, walk, att, obs, queue, moved, created, run,
                   bm, EXIF_AVAILABLE>>

TimestampNext == PickTimestamp

TimestampSpec == TimestampInit /\ [][TimestampNext]_vars

\* the file carries a tag that can be read: the library is there, the file
\* opens as an image and its first date tag holds a date in the EXIF format
HasReadableTag(f) ==
    /\ EXIF_AVAILABLE
    /\ f.exif.opens
    /\ \E i \in 1..Len(f.exif.tags) :
          /\ f.exif.tags[i].name \in DateTags
          /\ \A j \in 1..(i - 1) : f.exif.tags[j].name \notin DateTags
          /\ f.exif.tags[i].val = "2025:04:25 23:59:59"

\* C12: with the exif source selected and no readable tag in the file (tag
\* missing or malformed, file not an image, PIL absent) pick_timestamp returns
\* the instant it returns for the same file with the mtime source, which is
\* the file's modification time; the call returns an instant, it does not raise.
C12_ExifFallsBackToMtime ==
    (pt.state = "done" /\ args.source = "exif" /\ ~HasReadableTag(pt.file)) =>
        /\ pt.out = pick_timestamp(pt.file, "mtime")
        /\ pt.out = pt.file.mtime
        /\ pt.out # NoTag

\* the resolver has fallen back for a file whose date tag is malformed
C12_Witness ==
    /\ pt.state = "done"
    /\ args.source = "exif"
    /\ EXIF_AVAILABLE
    /\ pt.file.exif.opens
    /\ \E i \in 1..Len(pt.file.exif.tags) : pt.file.exif.tags[i].name \in DateTags
    /\ ~HasReadableTag(pt.file)
    /\ pt.out = pt.file.mtime
    /\ pt.file.mtime # pt.file.ctime

-----------------------------------------------------------------------------
(* Shutdown of the watch loop                                              *)

\* Idle, Running, Stopping, Stopped; a dispatch thread killed by an exception
\* has ended as well
Rank(o) ==
    CASE o = "none" -> 0
      [] o = "running" -> 1
      [] o = "stopping" -> 2
      [] o \in {"stopped", "dead"} -> 3

\* the steps the dispatch thread has left before it ends, once it has been
\* asked to stop
Remaining ==
    (IF obs = "stopping" THEN 1 ELSE 0) +
    (CASE att["obs"].pc = "sleep" -> 5
       [] att["obs"].pc = "sort" -> 4
       [] att["obs"].pc = "move" -> 3
       [] att["obs"].pc = "copy" -> 2
       [] att["obs"].pc = "unlink" -> 1
       [] att["obs"].pc = "idle" -> 0)

\* the dispatch thread has a step to take; Resolve is guarded by the
\* position of the thread alone
ObsCanStep ==
    \/ att["obs"].pc = "sort"
    \/ ENABLED (Dispatch \/ Settle \/ ObsExit \/ Move("obs") \/ CopyDone("obs")
                  \/ CopyFail("obs") \/ Unlink("obs"))

\* C13: once KeyboardInterrupt has led to observer.stop(), the dispatch thread
\* takes no further event from its queue and starts no classification; a
\* classification in progress is not cut off, it ends with its move (or with
\* its own exception); the thread then ends, and ended is final: while it is
\* stopping it always has a step to take and each of its steps brings it
\* nearer to its end. The thread goes through none, running, stopping,
\* stopped in this order only.
C13_ShutdownDrains ==
    /\ [][/\ pcMain \in {"join", "exit"} =>
                /\ Len(queue') >= Len(queue)
                /\ att["obs"].pc = "idle" => att'["obs"].pc = "idle"
          /\ (obs = "stopping" /\ att["obs"].pc # "idle" /\ att'["obs"].pc = "idle") =>
                (obs' = "dead" \/ \E m \in moved' \ moved : m.by = "obs")
          /\ Rank(obs') >= Rank(obs)
          /\ Rank(obs) = 3 => obs' = obs
          /\ (obs' = "stopping" /\ obs # "stopping") =>
                (obs = "running" /\ pcMain = "observe" /\ pcMain' = "join")
          /\ (obs = "stopping" /\ (obs' # obs \/ att'["obs"] # att["obs"])) =>
                Remaining' < Remaining
         ]_vars
    /\ [](/\ obs = "stopped" => att["obs"].pc = "idle"
          /\ obs = "stopping" => ObsCanStep)

\* the thread has stopped with a notification left in its queue, after it had
\* relocated a file
C13_Witness ==
    /\ obs = "stopped"
    /\ queue # <<>>
    /\ \E m \in moved : m.by = "obs"

-----------------------------------------------------------------------------
(* Eligibility                                                             *)

\* the extension of a file name, in lower case, without its dot
Extension(name) ==
    LET ext == Lower(SplitExt(name)[2])
    IN IF ext = "" THEN "" ELSE SubSeq(ext, 2, Len(ext))

\* C14: only a file whose extension, compared without regard to case, is one
\* of the recognized extensions is passed to sort_file, by the handler and by
\* the sweep alike; nothing else is moved.
C14_OnlyRecognizedExtensions ==
    /\ \A t \in Threads : att[t].pc # "idle" => Extension(BaseName(att[t].src)) \in args.exts
    /\ \A m \in moved : Extension(BaseName(m.src)) \in args.exts

-----------------------------------------------------------------------------
(* No file is handled twice by the watch loop                              *)

\* a bucket name as get_date_range_folder writes it
IsLabel(str) ==
    /\ Len(str) = 21
    /\ CharAt(str, 11) = "-"
    /\ \A i \in {5, 8, 16, 19} : CharAt(str, i) = "."
    /\ AllDigits(SubSeq(str, 1, 4) \o SubSeq(str, 6, 7) \o SubSeq(str, 9, 10)
                   \o SubSeq(str, 12, 15) \o SubSeq(str, 17, 18) \o SubSeq(str, 20, 21))

-----------------------------------------------------------------------------
(* The handoff from the sweep to the watch loop                            *)

\* C16: with the sweep requested and no failure, once the watch loop runs and
\* has nothing left to do (its queue is empty, no classification is in
\* progress), no file with a recognized extension is left as a direct child
\* of the watched directory outside the destination root: whatever was
\* created there, before or during the sweep or later, has been relocated.
C16_NoFileMissed ==
    (/\ args.process_existing
     /\ pcMain = "observe"
     /\ obs = "running"
     /\ queue = <<>>
     /\ att["obs"].pc = "idle")
    => \A f \in files :
          ~(/\ IsChildOf(f.path, NormPath(args.watch_dir))
            /\ Extension(BaseName(f.path)) \in args.exts
            /\ ~IsPrefix(NormPath(args.dst_dir), f.path))

-----------------------------------------------------------------------------
(* The defaults: the destination root is the watched directory             *)

====
